---- MODULE Spec2Model ----
(***************************************************************************)
(* Model of the two analytical stages of the audio-fingerprinting backend: *)
(*   createSpectogram  (backend/src/spectogram.js)                         *)
(*   findPeaks         (backend/src/peakfinder.js)                         *)
(* Arrays are 0-indexed in the source; the model keeps 0-based indices and *)
(* converts when it touches a TLA+ sequence.  Amplitudes are non-negative  *)
(* integers; only their order matters to the code under study.             *)
(***************************************************************************)
EXTENDS Integers, Sequences, FiniteSets

VARIABLES
    \* ---- createSpectogram ----
    audioLength,        \* audioData.length
    windowSize,
    hopSize,
    i,                  \* frame loop index
    spectogram,         \* rows pushed so far: [start, bins]
    transforms,         \* calls of fft.realTransform so far
    returned,           \* value handed to the caller (NoValue until return)
    pcS,                \* "idle" | "start" | "loop" | "done" | "error"
    \* ---- findPeaks ----
    spectrogram,        \* sequence of rows, each a sequence of amplitudes
    minFreq,
    maxFreq,
    timeNeighborhood,
    freqNeighborhood,
    threshold,
    peaks,              \* landmarks pushed so far
    outside,            \* element reads that fell outside the matrix so far
    pcP                 \* "idle" | "call" | "done" | "error"

varsS == <<audioLength, windowSize, hopSize, i, spectogram, transforms, returned, pcS>>
varsP == <<spectrogram, minFreq, maxFreq, timeNeighborhood, freqNeighborhood,
           threshold, peaks, outside, pcP>>
vars == <<varsS, varsP>>

----------------------------------------------------------------------------
\* Bounds of the model

MaxLength == 5
MaxWindow == 4
MaxHop == 3
MaxAmplitude == 1

\* shapes of the spectrograms and the parameters a call is given
RowCounts == 0..3
BinCounts == 0..3
Amplitudes == 0..MaxAmplitude
Thresholds == {0}
Neighborhoods == (0..1) \X (0..1)
FreqRanges == {<<0, 3>>, <<1, 2>>}

\* cap on the frames a run of the model records
MaxFrames == MaxLength + 1

Min(a, b) == IF a < b THEN a ELSE b

----------------------------------------------------------------------------
\* createSpectogram

NoValue == <<"none">>

\* loop condition of the frame loop
FrameLoopCondLe(start) == start <= audioLength - windowSize
FrameLoopCond(start) == start < audioLength - windowSize

\* new Float32Array(n): a negative length throws RangeError
TypedArrayThrows(n) == n < 0

\* new Float32Array(windowSize / 2): the length is truncated to an integer
MagnitudeBins == windowSize \div 2

InitSpectogramCall ==
    /\ audioLength \in 0..MaxLength
    /\ windowSize \in -1..MaxWindow
    /\ hopSize \in -1..MaxHop
    /\ i = 0
    /\ spectogram = <<>>
    /\ transforms = 0
    /\ returned = NoValue
    /\ pcS = "start"

\* const fft = new FFT(windowSize); const hammingWindow = new Float32Array(windowSize)
\* The transform kernel is an external library: it may reject the size.
Construct ==
    /\ pcS = "start"
    /\ \E kernelAccepts \in BOOLEAN :
          IF kernelAccepts /\ ~TypedArrayThrows(windowSize)
          THEN pcS' = "loop"
          ELSE pcS' = "error"
    /\ i' = 0
    /\ UNCHANGED <<audioLength, windowSize, hopSize, spectogram, transforms, returned>>
    /\ UNCHANGED varsP

\* one iteration of the frame loop
Frame ==
    /\ pcS = "loop"
    /\ FrameLoopCond(i)
    /\ Len(spectogram) < MaxFrames
    /\ \E transformOk \in BOOLEAN :
          IF transformOk
          THEN /\ spectogram' = Append(spectogram, [start |-> i, bins |-> MagnitudeBins])
               /\ i' = i + hopSize
               /\ pcS' = "loop"
          ELSE /\ pcS' = "error"
               /\ UNCHANGED <<spectogram, i>>
    /\ transforms' = transforms + 1
    /\ UNCHANGED <<audioLength, windowSize, hopSize, returned>>
    /\ UNCHANGED varsP

\* return spectogram
ReturnSpectogram ==
    /\ pcS = "loop"
    /\ ~FrameLoopCond(i)
    /\ pcS' = "done"
    /\ returned' = spectogram
    /\ UNCHANGED <<audioLength, windowSize, hopSize, i, spectogram, transforms>>
    /\ UNCHANGED varsP

----------------------------------------------------------------------------
\* findPeaks

\* value of an element read that misses the array (JavaScript undefined)
Undef == -1

\* relational operators of the language: any comparison with undefined is false
Gt(a, b) == a # Undef /\ b # Undef /\ a > b
Ge(a, b) == a # Undef /\ b # Undef /\ a >= b

RowCount == Len(spectrogram)
HasRow(r) == r >= 0 /\ r < RowCount
RowLength(r) == Len(spectrogram[r + 1])
InMatrix(r, c) == HasRow(r) /\ c >= 0 /\ c < RowLength(r)

\* spectrogram[r][c]
Read(r, c) == IF InMatrix(r, c) THEN spectrogram[r + 1][c + 1] ELSE Undef

\* outer loop condition
TimeLoopCondLe(tt) == tt <= RowCount - timeNeighborhood
TimeLoopCond(tt) == tt < RowCount - timeNeighborhood

\* upper limit of the frequency loop for row tt
FreqLimitNoEdge(tt) == Min(maxFreq, RowLength(tt))
FreqLimit(tt) == Min(maxFreq, RowLength(tt) - freqNeighborhood)

\* let isPeak = value > threshold
PassesThresholdGe(value) == Ge(value, threshold)
PassesThreshold(value) == Gt(value, threshold)

\* if (dt === 0 && df === 0) continue
SkipSelfEither(dt, df) == dt = 0 \/ df = 0
SkipSelf(dt, df) == dt = 0 /\ df = 0

\* if (spectrogram[t + dt][f + df] >= value) isPeak = false
DisqualifiesStrict(neighbor, value) == Gt(neighbor, value)
Disqualifies(neighbor, value) == Ge(neighbor, value)

NeighborWidth == 2 * freqNeighborhood + 1
NeighborCount == (2 * timeNeighborhood + 1) * NeighborWidth

\* 1 when the element read spectrogram[r][c] misses the matrix, else 0
Miss(r, c) == IF InMatrix(r, c) THEN 0 ELSE 1

\* The dt/df loops from their k-th iteration on, in source order, stopping at
\* the first disqualifying neighbor.  out counts the reads outside the matrix;
\* threw: spectrogram[t + dt] is undefined (TypeError).
RECURSIVE NeighborScan(_, _, _, _, _)
NeighborScan(tt, f, value, k, out) ==
    IF k >= NeighborCount
    THEN [isPeak |-> TRUE, outside |-> out, threw |-> FALSE]
    ELSE LET dt == (k \div NeighborWidth) - timeNeighborhood
             df == (k % NeighborWidth) - freqNeighborhood
         IN  IF SkipSelf(dt, df)
             THEN NeighborScan(tt, f, value, k + 1, out)
             ELSE IF ~HasRow(tt + dt)
             THEN [isPeak |-> FALSE, outside |-> out, threw |-> TRUE]
             ELSE IF Disqualifies(Read(tt + dt, f + df), value)
             THEN [isPeak |-> FALSE, outside |-> out + Miss(tt + dt, f + df), threw |-> FALSE]
             ELSE NeighborScan(tt, f, value, k + 1, out + Miss(tt + dt, f + df))

\* the body of the frequency loop at (tt, f): threshold test, then neighbors
TestCell(tt, f, out) ==
    IF PassesThreshold(Read(tt, f))
    THEN NeighborScan(tt, f, Read(tt, f), 0, out + Miss(tt, f))
    ELSE [isPeak |-> FALSE, outside |-> out + Miss(tt, f), threw |-> FALSE]

\* The frequency loop of row tt from bin f on; found and out accumulate the
\* landmarks pushed and the reads outside the matrix.
RECURSIVE ScanRow(_, _, _, _)
ScanRow(tt, f, found, out) ==
    IF ~(f < FreqLimit(tt))
    THEN [found |-> found, outside |-> out, threw |-> FALSE]
    ELSE LET cell == TestCell(tt, f, out)
         IN  IF cell.threw
             THEN [found |-> found, outside |-> cell.outside, threw |-> TRUE]
             ELSE ScanRow(tt, f + 1,
                          IF cell.isPeak
                          THEN Append(found, [time |-> tt, freq |-> f, amplitude |-> Read(tt, f)])
                          ELSE found,
                          cell.outside)

RowsOfLength(n) == [1..n -> Amplitudes]
Rows == UNION {RowsOfLength(n) : n \in BinCounts}
Spectrograms == UNION {[1..n -> Rows] : n \in RowCounts}

\* The outer (time) loop from frame tt on.
RECURSIVE ScanFrames(_, _, _)
ScanFrames(tt, found, out) ==
    IF ~TimeLoopCond(tt)
    THEN [found |-> found, outside |-> out, threw |-> FALSE]
    ELSE IF ~HasRow(tt)
    THEN [found |-> found, outside |-> out, threw |-> TRUE]
    ELSE LET row == ScanRow(tt, minFreq, found, out)
         IN  IF row.threw
             THEN row
             ELSE ScanFrames(tt + 1, row.found, row.outside)

InitPeaksCall ==
    /\ spectrogram \in Spectrograms
    /\ \E range \in FreqRanges : minFreq = range[1] /\ maxFreq = range[2]
    /\ \E neighborhood \in Neighborhoods :
          timeNeighborhood = neighborhood[1] /\ freqNeighborhood = neighborhood[2]
    /\ threshold \in Thresholds
    /\ peaks = <<>>
    /\ outside = 0
    /\ pcP = "call"

\* one call of findPeaks, from its first statement to its return or throw
FindPeaks ==
    /\ pcP = "call"
    /\ \E r \in {ScanFrames(timeNeighborhood, <<>>, 0)} :
          /\ pcP' = IF r.threw THEN "error" ELSE "done"
          /\ peaks' = r.found
          /\ outside' = r.outside
    /\ UNCHANGED <<spectrogram, minFreq, maxFreq, timeNeighborhood, freqNeighborhood, threshold>>
    /\ UNCHANGED varsS

----------------------------------------------------------------------------
\* Specifications: one call of each function

IdleSpectogram ==
    /\ audioLength = 0 /\ windowSize = 0 /\ hopSize = 0 /\ i = 0
    /\ spectogram = <<>> /\ transforms = 0 /\ returned = NoValue /\ pcS = "idle"

IdlePeaks ==
    /\ spectrogram = <<>> /\ minFreq = 0 /\ maxFreq = 0
    /\ timeNeighborhood = 0 /\ freqNeighborhood = 0 /\ threshold = 0
    /\ peaks = <<>> /\ outside = 0 /\ pcP = "idle"

InitS == InitSpectogramCall /\ IdlePeaks
NextS == Construct \/ Frame \/ ReturnSpectogram
SpecSpectogram == InitS /\ [][NextS]_vars

InitP == IdleSpectogram /\ InitPeaksCall
NextP == FindPeaks
SpecPeaks == InitP /\ [][NextP]_vars

----------------------------------------------------------------------------
\* Vocabulary of the properties (written without the loop helpers above)

PeakSet == {peaks[k] : k \in 1..Len(peaks)}
Coords == {<<p.time, p.freq>> : p \in PeakSet}
RowIndices == 0..(RowCount - 1)
BinIndices(r) == 0..(RowLength(r) - 1)
Value(r, c) == spectrogram[r + 1][c + 1]
TimeOffsets == (-timeNeighborhood)..timeNeighborhood
FreqOffsets == (-freqNeighborhood)..freqNeighborhood
ValidNeighborhood == timeNeighborhood >= 0 /\ freqNeighborhood >= 0

\* the cells (r, c) of the matrix that satisfy P
CellsWhere(P(_, _)) == UNION {{<<r, c>> : c \in {b \in BinIndices(r) : P(r, b)}} : r \in RowIndices}

\* the scan region of section 4.3
ScannedRows == timeNeighborhood..(RowCount - timeNeighborhood - 1)
InRegion(r, c) ==
    /\ r \in ScannedRows
    /\ c >= minFreq /\ c < maxFreq /\ c < RowLength(r) - freqNeighborhood

\* strictly above the threshold and above every neighbor the matrix holds
Dominant(r, c) ==
    /\ Value(r, c) > threshold
    /\ \A dt \in TimeOffsets : \A df \in FreqOffsets :
          \/ dt = 0 /\ df = 0
          \/ ~InMatrix(r + dt, c + df)
          \/ Value(r + dt, c + df) < Value(r, c)
DominantCells == CellsWhere(Dominant)
Landmark(c) == [time |-> c[1], freq |-> c[2], amplitude |-> Value(c[1], c[2])]

----------------------------------------------------------------------------
\* createSpectogram

FrameStarts == {s \in 0..audioLength : s % hopSize = 0 /\ s < audioLength - windowSize}

\* C1: for W > 0 and H > 0 the returned spectrogram has one row per start in
\* {0, H, 2H, ...} with start < L - W (none when L <= W), and row k comes from
\* the slice starting at k*H.
C1_FrameCountLaw ==
    (pcS = "done" /\ windowSize > 0 /\ hopSize > 0) =>
        /\ Len(returned) = Cardinality(FrameStarts)
        /\ \A k \in 1..Len(returned) : returned[k].start = (k - 1) * hopSize
        /\ (audioLength <= windowSize => returned = <<>>)

C1_Witness ==
    /\ pcS = "done" /\ windowSize > 0 /\ hopSize > 0
    /\ Len(returned) >= 2
    /\ (audioLength - windowSize) % hopSize = 0

InvalidConfiguration == windowSize <= 0 \/ hopSize <= 0 \/ windowSize % 2 = 1

\* C2: with windowSize <= 0, hopSize <= 0 or an odd windowSize the call ends in
\* an error before any frame is processed: no row appended, no transform
\* invoked, nothing returned.
C2_EagerRejection ==
    InvalidConfiguration =>
        /\ pcS # "done"
        /\ spectogram = <<>>
        /\ transforms = 0
        /\ returned = NoValue

\* C8: the work of a call is bounded by the size of its input: the frame loop
\* never completes more iterations than the buffer has samples.
C8_BoundedWork == Len(spectogram) <= audioLength

----------------------------------------------------------------------------
\* findPeaks

\* C3: every landmark carries the amplitude of its cell, exceeds the threshold
\* and is strictly greater than spectrogram[t+dt][f+df] at every offset of its
\* neighborhood other than (0,0).
C3_Soundness ==
    \A p \in PeakSet :
        /\ p.amplitude = Read(p.time, p.freq)
        /\ p.amplitude > threshold
        /\ \A dt \in TimeOffsets : \A df \in FreqOffsets :
              (dt = 0 /\ df = 0) \/ Gt(p.amplitude, Read(p.time + dt, p.freq + df))

\* C4: the whole neighborhood of every landmark lies inside the matrix.
C4_FullNeighborhood ==
    \A p \in PeakSet : \A dt \in TimeOffsets : \A df \in FreqOffsets :
        InMatrix(p.time + dt, p.freq + df)

\* C5 as stated: a spectrogram with exactly one cell above the threshold and
\* above its neighborhood yields exactly one landmark, at that cell.
C5_SingleSpike ==
    pcP = "done" =>
        LET spikes == DominantCells
        IN  Cardinality(spikes) = 1 => \E c \in spikes : peaks = <<Landmark(c)>>

\* C5 amended: the single dominant cell is reported, alone, when it lies in
\* the scan region; outside the region the result is empty.
C5_SingleSpikeInRegion ==
    pcP = "done" =>
        LET spikes == DominantCells
        IN  Cardinality(spikes) = 1 =>
                \E c \in spikes :
                    IF InRegion(c[1], c[2]) THEN peaks = <<Landmark(c)>> ELSE peaks = <<>>

C5_Witness ==
    /\ pcP = "done" /\ Cardinality(DominantCells) = 1
    /\ timeNeighborhood = 1 /\ freqNeighborhood = 1
    /\ \E c \in DominantCells : InRegion(c[1], c[2]) /\ peaks = <<Landmark(c)>>

\* the cells horizontally or vertically adjacent to (r, c)
AdjacentCells(r, c) ==
    {n \in {<<r, c - 1>>, <<r, c + 1>>, <<r - 1, c>>, <<r + 1, c>>} : InMatrix(n[1], n[2])}

\* (r, c) exceeds the threshold and an adjacent cell holds the same value
Tied(r, c) ==
    /\ Value(r, c) > threshold
    /\ \E n \in AdjacentCells(r, c) : Value(n[1], n[2]) = Value(r, c)

\* C6: with both neighborhood components >= 1, two horizontally or vertically
\* adjacent cells of equal value above the threshold are never landmarks.
C6_TieSuppression ==
    (pcP = "done" /\ timeNeighborhood >= 1 /\ freqNeighborhood >= 1) =>
        \A p \in PeakSet : ~Tied(p.time, p.freq)

\* a and b tie, and each exceeds every other neighbor the matrix holds
MaximalTie(a, b) ==
    /\ Value(a[1], a[2]) = Value(b[1], b[2])
    /\ Value(a[1], a[2]) > threshold
    /\ \A c \in {a, b} : \A dt \in TimeOffsets : \A df \in FreqOffsets :
          \/ <<c[1] + dt, c[2] + df>> \in {a, b}
          \/ ~InMatrix(c[1] + dt, c[2] + df)
          \/ Value(c[1] + dt, c[2] + df) < Value(c[1], c[2])

C6_Witness ==
    /\ pcP = "done" /\ timeNeighborhood >= 1 /\ freqNeighborhood >= 1
    /\ \E r \in ScannedRows : \E c \in BinIndices(r) :
          /\ InRegion(r, c) /\ InRegion(r, c + 1)
          /\ MaximalTie(<<r, c>>, <<r, c + 1>>)
          /\ <<r, c>> \notin Coords /\ <<r, c + 1>> \notin Coords

Degenerate ==
    \/ RowCount = 0
    \/ 2 * timeNeighborhood >= RowCount
    \/ \A r \in ScannedRows : minFreq >= RowLength(r) - freqNeighborhood

\* C7: an empty spectrogram, or a neighborhood too large for the matrix, gives
\* an empty landmark list, no error and no read outside the matrix.
C7_PermissiveDegenerate ==
    (ValidNeighborhood /\ Degenerate) =>
        /\ pcP # "error"
        /\ peaks = <<>>
        /\ outside = 0

C7_Witness ==
    /\ pcP = "done" /\ peaks = <<>> /\ outside = 0
    /\ RowCount > 2 * timeNeighborhood
    /\ freqNeighborhood >= 1
    /\ \A r \in ScannedRows : minFreq >= RowLength(r) - freqNeighborhood
    /\ \E r \in ScannedRows : RowLength(r) > minFreq

\* the declarative predicate of section 4.3
Qualifies(r, c) ==
    /\ InRegion(r, c)
    /\ Value(r, c) > threshold
    /\ ~ \E dt \in TimeOffsets : \E df \in FreqOffsets :
            /\ ~(dt = 0 /\ df = 0)
            /\ InMatrix(r + dt, c + df)
            /\ Value(r + dt, c + df) >= Value(r, c)
QualifyingCells == CellsWhere(Qualifies)

\* C9: the returned coordinates are exactly the cells of the scan region that
\* exceed the threshold and have no neighbor >= their value, each once.
C9_ScanEquivalence ==
    pcP = "done" =>
        LET qualifying == QualifyingCells
        IN  /\ Coords = qualifying
            /\ Len(peaks) = Cardinality(qualifying)

C9_Witness ==
    /\ pcP = "done"
    /\ Len(peaks) >= 2
    /\ \E r \in ScannedRows : \E c \in BinIndices(r) :
          /\ InRegion(r, c)
          /\ Value(r, c) > threshold
          /\ <<r, c>> \notin Coords

\* C10: no two distinct landmarks lie in each other's neighborhood; the list
\* holds no coordinate twice.
C10_Sparsity ==
    pcP = "done" => \A j \in 1..Len(peaks) : \A k \in 1..Len(peaks) :
          j # k =>
              LET d1 == peaks[j].time - peaks[k].time
                  d2 == peaks[j].freq - peaks[k].freq
              IN  ~ (/\ d1 <= timeNeighborhood /\ -d1 <= timeNeighborhood
                     /\ d2 <= freqNeighborhood /\ -d2 <= freqNeighborhood)

C10_Witness ==
    /\ pcP = "done"
    /\ timeNeighborhood + freqNeighborhood >= 1
    /\ Len(peaks) >= 2

====
